---- MODULE Spec2Model ----
(***************************************************************************)
(* granary/as2.py: conversion between ActivityStreams 1 and 2.             *)
(*                                                                         *)
(* Python values are tagged records: None, str, int, list and dict.  A     *)
(* dict is a TLA+ function from its keys to its values.  An uncaught       *)
(* exception is the value Raise(e).  The caller holds one tree, calls      *)
(* from_as1 or to_as1 on it and may pass the AS2 result on to to_as1.      *)
(***************************************************************************)
EXTENDS Integers, Sequences, FiniteSets, TLC

VARIABLES
    dictOrder,            \* the order in which this build's dicts iterate
    TYPE_TO_OBJECT_TYPE,  \* the inverted tables, built when the module loads
    TYPE_TO_VERB,
    dialect,              \* what the caller holds: "as1" or "as2"
    input,                \* the caller's tree
    calls                 \* the calls made so far, each with its outcome

vars == <<dictOrder, TYPE_TO_OBJECT_TYPE, TYPE_TO_VERB, dialect, input, calls>>

tables == <<dictOrder, TYPE_TO_OBJECT_TYPE, TYPE_TO_VERB>>

---------------------------------------------------------------------------
(* Python values *)

None == [k |-> "None"]

Str(s) == [k |-> "str", s |-> s]

Num(n) == [k |-> "int", n |-> n]

List(l) == [k |-> "list", l |-> l]

Dict(m) == [k |-> "dict", m |-> m]

Raise(e) == [k |-> "raise", e |-> e]

EmptyMap == [x \in {} |-> None]

IsRaise(v) == v.k = "raise"

\* Python truth value: None, '', 0, [] and {} are false.
Truthy(v) ==
    CASE v.k = "None" -> FALSE
      [] v.k = "str"  -> v.s # ""
      [] v.k = "int"  -> v.n # 0
      [] v.k = "list" -> v.l # <<>>
      [] v.k = "dict" -> DOMAIN v.m # {}
      [] OTHER        -> TRUE

\* not obj
is_empty_none(obj) == obj = None

is_empty(obj) == ~Truthy(obj)

\* a or b
Or(a, b) == IF Truthy(a) THEN a ELSE b

\* dict.get(key) with default None
get(m, key) == IF key \in DOMAIN m THEN m[key] ELSE None

\* dict.pop(key, None), the dict afterwards
pop(m, key) == [x \in DOMAIN m \ {key} |-> m[x]]

\* d[key] = v
put(m, key, v) == (key :> v) @@ m

\* d.update(other)
update(m, other) == other @@ m

\* table.get(key) of a vocabulary table (string to string)
lookup(table, key) ==
    IF key.k = "str" /\ key.s \in DOMAIN table THEN Str(table[key.s]) ELSE None

Reverse(s) == [i \in 1..Len(s) |-> s[Len(s) + 1 - i]]

Min(S) == CHOOSE x \in S : \A y \in S : x <= y

\* f itself, its values computed once
once(f) == f @@ EmptyMap

RECURSIVE Concat(_)
Concat(ss) == IF ss = <<>> THEN <<>> ELSE Head(ss) \o Concat(Tail(ss))

---------------------------------------------------------------------------
(* oauth_dropins.webutil.util: the list and trimming helpers *)

NULLS == {None, Dict(EmptyMap), List(<<>>), Str("")}

RECURSIVE trim_nulls(_)
trim_nulls(v) ==
    CASE v.k = "dict" ->
           LET t == once([x \in DOMAIN v.m |-> trim_nulls(v.m[x])])
               keep == {x \in DOMAIN t : t[x] \notin NULLS}
           IN  Dict([x \in keep |-> t[x]])
      [] v.k = "list" ->
           LET t == once([i \in 1..Len(v.l) |-> trim_nulls(v.l[i])])
           IN  List(SelectSeq(t, LAMBDA e : e \notin NULLS))
      [] OTHER -> v

\* absent -> [], a list -> itself, anything else -> a one-element list
get_list(m, key) ==
    IF key \notin DOMAIN m THEN <<>>
    ELSE IF m[key].k = "list" THEN m[key].l
    ELSE <<m[key]>>

pop_list(m, key) == get_list(m, key)

---------------------------------------------------------------------------
(* Vocabulary tables *)

CONTEXT == "https://www.w3.org/ns/activitystreams"

OBJECT_TYPE_TO_TYPE ==
    [article |-> "Article", audio |-> "Audio", collection |-> "Collection",
     comment |-> "Note", event |-> "Event", image |-> "Image", note |-> "Note",
     person |-> "Person", place |-> "Place", video |-> "Video"]

\* a table edit that makes two verbs share a type
VERB_TO_TYPE_collide ==
    ("favorite" :> "Like") @@ ("invite" :> "Invite") @@ ("like" :> "Like") @@
    ("post" :> "Create") @@ ("rsvp-maybe" :> "TentativeAccept") @@
    ("rsvp-no" :> "Reject") @@ ("rsvp-yes" :> "Accept") @@
    ("share" :> "Announce") @@ ("tag" :> "Add") @@ ("update" :> "Update")

VERB_TO_TYPE ==
    ("favorite" :> "Favorite") @@ ("invite" :> "Invite") @@ ("like" :> "Like") @@
    ("post" :> "Create") @@ ("rsvp-maybe" :> "TentativeAccept") @@
    ("rsvp-no" :> "Reject") @@ ("rsvp-yes" :> "Accept") @@
    ("share" :> "Announce") @@ ("tag" :> "Add") @@ ("update" :> "Update")

\* Every string that is a dict key somewhere, in one fixed order.  A Python 2
\* dict iterates in hash order, which the program does not control: the build
\* iterates either in this order ("fwd") or in the opposite one ("rev").
KeyOrder ==
    <<"@context", "actor", "article", "attachment", "attachments",
      "attributedTo", "audio", "author", "collection", "comment",
      "displayName", "event", "favorite", "image", "inReplyTo", "invite",
      "like", "location", "name", "note", "object", "objectType", "person",
      "place", "post", "rsvp-maybe", "rsvp-no", "rsvp-yes", "share", "tag",
      "tags", "target", "type", "update", "url", "verb", "video">>

\* the keys of dict m in iteration order
iter(m) ==
    LET s == SelectSeq(KeyOrder, LAMBDA x : x \in DOMAIN m)
    IN  IF dictOrder = "fwd" THEN s ELSE Reverse(s)

RECURSIVE invert_items(_, _)
invert_items(d, ks) ==
    IF ks = <<>> THEN [x \in {} |-> ""]
    ELSE LET n == Len(ks)
         IN  (d[ks[n]] :> ks[n]) @@ invert_items(d, SubSeq(ks, 1, n - 1))

\* {v: k for k, v in d.items()}: a later item overwrites an earlier one
_invert(d) == invert_items(d, iter(d))

---------------------------------------------------------------------------
(* from_as1 *)

\* obj = obj: the working dict is the caller's own object
deepcopy_alias(o) == [fresh |-> FALSE, val |-> o]

\* copy.deepcopy(obj): an equal tree in a fresh object
deepcopy(o) == [fresh |-> TRUE, val |-> o]

RECURSIVE from_as1_run(_, _, _)

\* context left out of a nested call: the default
nested_context_default == Str(CONTEXT)

\* the context=None of every nested call
nested_context == None

from_as1(obj, type, context) == from_as1_run(obj, type, context).ret

\* util.pop_list(obj, field), the elements left as they are
all_from_as1_raw(m, field, type) == List(pop_list(m, field))

\* [from_as1(elem, type=type, context=None) for elem in util.pop_list(obj, field)]
all_from_as1(m, field, type) ==
    LET elems == pop_list(m, field)
        rets == once([i \in 1..Len(elems) |->
                        from_as1(elems[i], type, nested_context)])
        bad == {i \in 1..Len(elems) : IsRaise(rets[i])}
    IN  IF bad # {} THEN rets[Min(bad)] ELSE List(rets)

\* [orig.get('url') for orig in obj.get('inReplyTo', [])]
reply_urls(m) ==
    IF "inReplyTo" \notin DOMAIN m THEN List(<<>>)
    ELSE LET v == m["inReplyTo"]
         IN  CASE v.k = "list" ->
                    IF \E i \in 1..Len(v.l) : v.l[i].k # "dict"
                    THEN Raise("AttributeError")
                    ELSE List([i \in 1..Len(v.l) |-> get(v.l[i].m, "url")])
               [] v.k = "dict" ->
                    IF DOMAIN v.m = {} THEN List(<<>>) ELSE Raise("AttributeError")
               [] v.k = "str" ->
                    IF v.s = "" THEN List(<<>>) ELSE Raise("AttributeError")
               [] OTHER -> Raise("TypeError")

\* the one-key mapping returned as it is
collapse_never(trimmed) == trimmed

\* if obj.keys() == ['url']: return obj['url']
collapse(trimmed) ==
    IF DOMAIN trimmed.m = {"url"} THEN trimmed.m["url"] ELSE trimmed

\* obj.pop(key, None) for every key of keys, the dict afterwards
pops(m, keys) == [x \in DOMAIN m \ keys |-> m[x]]

\* OBJECT_TYPE_TO_TYPE.get(verb or obj_type) or VERB_TO_TYPE.get(verb or obj_type)
\* or type
resolve_type(verb, obj_type, type) ==
    Or(Or(lookup(OBJECT_TYPE_TO_TYPE, Or(verb, obj_type)),
          lookup(VERB_TO_TYPE, Or(verb, obj_type))),
       type)

\* if context: obj['@context'] = CONTEXT
stamp(m, context) == IF Truthy(context) THEN put(m, "@context", Str(CONTEXT)) ELSE m

\* The values of the dict display of obj.update({...}), in evaluation order,
\* on the working dict o: v is the value (or the exception raised), o the
\* working dict once it is evaluated.
from_as1_steps(o) ==
    <<[v |-> from_as1(get(o, "actor"), None, nested_context),
       o |-> pops(o, {"displayName"})],
      [v |-> all_from_as1(o, "attachments", None),
       o |-> pops(o, {"displayName", "attachments"})],
      [v |-> all_from_as1(o, "author", Str("Person")),
       o |-> pops(o, {"displayName", "attachments", "author"})],
      [v |-> all_from_as1(o, "image", Str("Image")),
       o |-> pops(o, {"displayName", "attachments", "author", "image"})],
      [v |-> trim_nulls(reply_urls(o)),
       o |-> pops(o, {"displayName", "attachments", "author", "image"})],
      [v |-> from_as1(get(o, "object"), None, nested_context),
       o |-> pops(o, {"displayName", "attachments", "author", "image"})],
      [v |-> all_from_as1(o, "tags", None),
       o |-> pops(o, {"displayName", "attachments", "author", "image", "tags"})]>>

\* loc = obj.get('location') and what follows it, on the working dict o
from_as1_location(o) ==
    LET loc == get(o, "location")
        converted == from_as1(loc, Str("Place"), nested_context)
    IN  IF ~Truthy(loc) THEN [ret |-> collapse(trim_nulls(Dict(o))), obj |-> o]
        ELSE IF IsRaise(converted) THEN [ret |-> converted, obj |-> o]
        ELSE [ret |-> collapse(trim_nulls(Dict(put(o, "location", converted)))),
              obj |-> put(o, "location", converted)]

\* obj.update({...}) on the working dict o, steps the values of its display:
\* the first exception among them ends the call before the update
from_as1_update(o, ty, steps) ==
    LET bad == {i \in 1..Len(steps) : IsRaise(steps[i].v)}
    IN  IF bad # {} THEN [ret |-> steps[Min(bad)].v, obj |-> steps[Min(bad)].o]
        ELSE from_as1_location(
               update(steps[Len(steps)].o,
                    ("type" :> ty) @@ ("name" :> get(o, "displayName")) @@
                    ("actor" :> steps[1].v) @@ ("attachment" :> steps[2].v) @@
                    ("attributedTo" :> steps[3].v) @@ ("image" :> steps[4].v) @@
                    ("inReplyTo" :> steps[5].v) @@ ("object" :> steps[6].v) @@
                    ("tag" :> steps[7].v)))

\* The body after the deep copy, on the working dict m.  ret is the value
\* returned or raised, obj the working dict when the call ends.
from_as1_body(m, type, context) ==
    from_as1_update(stamp(pops(m, {"verb", "objectType"}), context),
                    resolve_type(get(m, "verb"), get(m, "objectType"), type),
                    once(from_as1_steps(stamp(pops(m, {"verb", "objectType"}), context))))

\* ret: the value returned or raised; caller: the caller's object after the call
from_as1_run(obj, type, context) ==
    IF is_empty(obj) THEN [ret |-> Dict(EmptyMap), caller |-> obj]
    ELSE IF obj.k # "dict" THEN [ret |-> Raise("ValueError"), caller |-> obj]
    ELSE LET c == deepcopy(obj)
             b == from_as1_body(c.val.m, type, context)
         IN  [ret |-> b.ret, caller |-> IF c.fresh THEN obj ELSE Dict(b.obj)]

---------------------------------------------------------------------------
(* to_as1 *)

\* The characters of the strings the model iterates over.
Chars(s) ==
    IF s = "" THEN <<>>
    ELSE IF s = "http://x" THEN <<"h", "t", "t", "p", ":", "/", "/", "x">>
    ELSE <<s>>

\* logging.warning(...) of line 150: the dropped values; depth is the
\* recursion depth of the call that logs (0: the call the caller made)
warning(dropped, depth) == <<[dropped |-> dropped, depth |-> depth]>>

RECURSIVE to_as1_run(_, _, _)

\* {'url': val} if isinstance(val, basestring) else to_as1(val)
url_or_as1(val, depth) ==
    IF val.k = "str" THEN [ret |-> Dict("url" :> val), log |-> <<>>]
    ELSE to_as1_run(val, TRUE, depth)

\* the results of converting a sequence of elements: the list, or the first
\* exception; the warnings logged up to there
collect(each) ==
    LET runs == once(each)
        bad == {i \in 1..Len(runs) : IsRaise(runs[i].ret)}
        n == IF bad # {} THEN Min(bad) ELSE Len(runs)
    IN  [ret |-> IF bad # {} THEN runs[n].ret
                 ELSE List([i \in 1..Len(runs) |-> runs[i].ret]),
         log |-> Concat([i \in 1..n |-> runs[i].log])]

\* [to_as1(elem) for elem in util.pop_list(obj, field)]
all_to_as1(m, field, depth) ==
    LET elems == pop_list(m, field)
    IN  collect([i \in 1..Len(elems) |-> to_as1_run(elems[i], TRUE, depth)])

\* [to_as1(img, use_type=False) for img in obj.get('image', [])]
images_to_as1(m, depth) ==
    IF "image" \notin DOMAIN m THEN [ret |-> List(<<>>), log |-> <<>>]
    ELSE LET v == m["image"]
             elems == CASE v.k = "list" -> v.l
                        [] v.k = "dict" ->
                             [i \in 1..Len(iter(v.m)) |-> Str(iter(v.m)[i])]
                        [] v.k = "str" ->
                             [i \in 1..Len(Chars(v.s)) |-> Str(Chars(v.s)[i])]
                        [] OTHER -> <<>>
         IN  IF v.k \in {"None", "int"}
             THEN [ret |-> Raise("TypeError"), log |-> <<>>]
             ELSE collect([i \in 1..Len(elems) |->
                              to_as1_run(elems[i], FALSE, depth)])

\* the comment rule for notes alone
vocabulary_note_only(m, type) ==
    LET objectType == lookup(TYPE_TO_OBJECT_TYPE, type)
        verb == lookup(TYPE_TO_VERB, type)
        o == put(put(m, "objectType", objectType), "verb", verb)
    IN  IF Truthy(get(o, "inReplyTo")) /\ objectType = Str("note")
        THEN put(o, "objectType", Str("comment"))
        ELSE IF Truthy(verb) /\ ~Truthy(objectType)
        THEN put(o, "objectType", Str("activity"))
        ELSE o

\* objectType and verb from the type, when use_type
vocabulary(m, type) ==
    LET objectType == lookup(TYPE_TO_OBJECT_TYPE, type)
        verb == lookup(TYPE_TO_VERB, type)
        o == put(put(m, "objectType", objectType), "verb", verb)
    IN  IF Truthy(get(o, "inReplyTo")) /\ objectType \in {Str("note"), Str("article")}
        THEN put(o, "objectType", Str("comment"))
        ELSE IF Truthy(verb) /\ ~Truthy(objectType)
        THEN put(o, "objectType", Str("activity"))
        ELSE o

\* a warning for a single author too
extra_authors_any(attrib) == Len(attrib) > 0

\* len(attrib) > 1
extra_authors(attrib) == Len(attrib) > 1

\* The values of the dict display of obj.update({...}), in evaluation order,
\* on the working dict o: r is the value (or the exception raised) with the
\* warnings logged on the way, o the working dict once it is evaluated.
to_as1_steps(o, depth) ==
    <<[r |-> to_as1_run(get(o, "actor"), TRUE, depth + 1),
       o |-> pops(o, {"name"})],
      [r |-> all_to_as1(o, "attachment", depth + 1),
       o |-> pops(o, {"name", "attachment"})],
      [r |-> images_to_as1(o, depth + 1),
       o |-> pops(o, {"name", "attachment"})],
      [r |-> collect([i \in 1..Len(get_list(o, "inReplyTo")) |->
                        url_or_as1(get_list(o, "inReplyTo")[i], depth + 1)]),
       o |-> pops(o, {"name", "attachment"})],
      [r |-> url_or_as1(get(o, "location"), depth + 1),
       o |-> pops(o, {"name", "attachment"})],
      [r |-> to_as1_run(get(o, "object"), TRUE, depth + 1),
       o |-> pops(o, {"name", "attachment"})],
      [r |-> all_to_as1(o, "tag", depth + 1),
       o |-> pops(o, {"name", "attachment", "tag"})]>>

\* obj['author'] = to_as1(attrib[0]) and the return, on the working dict o
\* (attributedTo popped), log the warnings logged so far
to_as1_author(o, attrib, log, author) ==
    IF attrib = <<>> THEN [ret |-> trim_nulls(Dict(o)), obj |-> o, log |-> log]
    ELSE IF IsRaise(author.ret)
    THEN [ret |-> author.ret, obj |-> o, log |-> log \o author.log]
    ELSE [ret |-> trim_nulls(Dict(put(o, "author", author.ret))),
          obj |-> put(o, "author", author.ret), log |-> log \o author.log]

\* attrib = util.pop_list(obj, 'attributedTo') and the warning, on the working
\* dict o, log the warnings logged so far
to_as1_attrib(o, attrib, log, depth) ==
    to_as1_author(pop(o, "attributedTo"), attrib,
                  IF extra_authors(attrib)
                  THEN log \o warning(Tail(attrib), depth) ELSE log,
                  IF attrib = <<>> THEN [ret |-> None, log |-> <<>>]
                  ELSE to_as1_run(attrib[1], TRUE, depth + 1))

\* obj.update({...}) on the working dict o, steps the values of its display:
\* the first exception among them ends the call before the update
to_as1_update(o, steps, bad, depth) ==
    IF bad # {}
    THEN [ret |-> steps[Min(bad)].r.ret, obj |-> steps[Min(bad)].o,
          log |-> Concat([i \in 1..Min(bad) |-> steps[i].r.log])]
    ELSE to_as1_attrib(
           update(steps[Len(steps)].o,
                    ("displayName" :> get(o, "name")) @@ ("actor" :> steps[1].r.ret) @@
                    ("attachments" :> steps[2].r.ret) @@ ("image" :> steps[3].r.ret) @@
                    ("inReplyTo" :> steps[4].r.ret) @@
                    ("location" :> steps[5].r.ret) @@ ("object" :> steps[6].r.ret) @@
                    ("tags" :> steps[7].r.ret)),
           get_list(o, "attributedTo"),
           Concat([i \in 1..Len(steps) |-> steps[i].r.log]),
           depth)

\* the display evaluated on the working dict o
to_as1_display(o, steps, depth) ==
    to_as1_update(o, steps, {i \in 1..Len(steps) : IsRaise(steps[i].r.ret)}, depth)

\* obj.pop('@context', None); type = obj.pop('type', None); if use_type: ...
to_as1_typed(m, use_type) ==
    IF use_type THEN vocabulary(pops(m, {"@context", "type"}), get(m, "type"))
    ELSE pops(m, {"@context", "type"})

\* The body after the deep copy, on the working dict m.
to_as1_body(m, use_type, depth) ==
    to_as1_display(to_as1_typed(m, use_type),
                   once(to_as1_steps(to_as1_typed(m, use_type), depth)), depth)

\* ret: the value returned or raised; caller: the caller's object after the
\* call; log: the warnings logged, in order
to_as1_run(obj, use_type, depth) ==
    IF is_empty(obj) THEN [ret |-> Dict(EmptyMap), caller |-> obj, log |-> <<>>]
    ELSE IF obj.k = "str"
    THEN [ret |-> Dict("url" :> obj), caller |-> obj, log |-> <<>>]
    ELSE IF obj.k # "dict"
    THEN [ret |-> Raise("ValueError"), caller |-> obj, log |-> <<>>]
    ELSE LET c == deepcopy(obj)
             b == to_as1_body(c.val.m, use_type, depth)
         IN  [ret |-> b.ret, caller |-> IF c.fresh THEN obj ELSE Dict(b.obj),
              log |-> b.log]

to_as1(obj, use_type) == to_as1_run(obj, use_type, 0).ret

---------------------------------------------------------------------------
(* The trees the caller may hold *)

MaxDepth == 1

MaxLen == 2

U == "http://x"

\* all sequences over S of length at most n
RECURSIVE SeqsUpTo(_, _)
SeqsUpTo(S, n) ==
    IF n = 0 THEN {<<>>}
    ELSE LET shorter == SeqsUpTo(S, n - 1)
         IN  shorter \cup {Append(s, x) : s \in {t \in shorter : Len(t) = n - 1}, x \in S}

\* values that are no tree: empty ones and ones of a wrong type
Scalars == {None, Str(""), Str(U), Num(0), Num(1), List(<<>>), List(<<Str(U)>>)}

ObjectKeys == {"actor", "object", "location", "target"}

\* AS1 objects without nested objects
Leaves1 ==
    {Dict("url" :> Str(U)),
     Dict(("objectType" :> Str("note")) @@ ("displayName" :> Str("A"))),
     Dict(EmptyMap)}

\* the plain fields of an AS1 mapping that has a nested field
Base1 == {EmptyMap, ("verb" :> Str("share")) @@ ("objectType" :> Str("activity"))}

ListKeys1 == {"attachments", "author", "image", "tags", "inReplyTo"}

\* a mapping with one more field
With(Base, Keys, Vals) == {Dict((key :> v) @@ b) : b \in Base, key \in Keys, v \in Vals}

\* mappings nested d deep: each has one nested field, holding a value, a
\* mapping or a one-element list
RECURSIVE Spine1(_)
Spine1(d) ==
    IF d = 0 THEN Leaves1 \cup {Dict(b) : b \in Base1}
    ELSE LET sub == Spine1(d - 1)
         IN  sub \cup With(Base1, ObjectKeys, sub \cup {Str(U)})
                 \cup With(Base1, ListKeys1, sub \cup {List(<<x>>) : x \in sub})

\* mappings with one list field of up to MaxLen objects
Wide1 == With(Base1, ListKeys1, {List(s) : s \in SeqsUpTo(Leaves1, MaxLen)})

\* one vocabulary value each
Probes1 ==
    {Dict("objectType" :> Str(x)) : x \in DOMAIN OBJECT_TYPE_TO_TYPE}
      \cup {Dict("verb" :> Str(x)) : x \in DOMAIN VERB_TO_TYPE}

AS1Inputs == Scalars \cup Probes1 \cup Wide1 \cup Spine1(MaxDepth)

PersonA == Dict(("type" :> Str("Person")) @@ ("name" :> Str("A")))

\* AS2 objects: a person, a note with two authors, an empty one
Leaves2 ==
    {PersonA,
     Dict(("@context" :> Str(CONTEXT)) @@ ("type" :> Str("Note")) @@
          ("attributedTo" :> List(<<Str(U), PersonA>>))),
     Dict(EmptyMap)}

\* the plain fields of an AS2 mapping that has a nested field
Base2 == {EmptyMap, ("type" :> Str("Note")) @@ ("attributedTo" :> PersonA)}

ListKeys2 == {"attachment", "attributedTo", "image", "inReplyTo", "tag"}

\* in AS2 a string stands for a link wherever an object may
RECURSIVE Spine2(_)
Spine2(d) ==
    IF d = 0 THEN Leaves2 \cup {Dict(b) : b \in Base2}
    ELSE LET sub == Spine2(d - 1) \cup {Str(U)}
         IN  Spine2(d - 1) \cup With(Base2, ObjectKeys, sub)
                 \cup With(Base2, ListKeys2, sub \cup {List(<<x>>) : x \in sub})

Wide2 == With(Base2, ListKeys2, {List(s) : s \in SeqsUpTo(Leaves2 \cup {Str(U)}, MaxLen)})

Types2 ==
    {OBJECT_TYPE_TO_TYPE[x] : x \in DOMAIN OBJECT_TYPE_TO_TYPE}
      \cup {VERB_TO_TYPE[x] : x \in DOMAIN VERB_TO_TYPE} \cup {"Unknown"}

Probes2 ==
    {Dict("type" :> Str(t)) : t \in Types2}
      \cup {Dict(("type" :> Str(t)) @@ ("inReplyTo" :> List(<<Str(U)>>))) : t \in Types2}

AS2Inputs == Scalars \cup Probes2 \cup Wide2 \cup Spine2(MaxDepth)

\* the arguments a caller passes
TypeHints == {None, Str("Person")}

Contexts == {None, Str(CONTEXT), Str("http://other/ns")}

---------------------------------------------------------------------------
(* The caller *)

Init ==
    /\ dictOrder \in {"fwd", "rev"}
    /\ TYPE_TO_OBJECT_TYPE = _invert(OBJECT_TYPE_TO_TYPE)
    /\ TYPE_TO_VERB = _invert(VERB_TO_TYPE)
    /\ \/ dialect = "as1" /\ input \in AS1Inputs
       \/ dialect = "as2" /\ input \in AS2Inputs
    /\ calls = <<>>

\* the record of one call: its arguments, the argument object before (arg) and
\* after (after) the call, what it returned or raised, what it logged
FromCall(obj, type, context) ==
    LET r == from_as1_run(obj, type, context)
    IN  [fn |-> "from_as1", type |-> type, context |-> context, use_type |-> TRUE,
         arg |-> obj, ret |-> r.ret, after |-> r.caller, log |-> <<>>]

ToCall(obj, use_type) ==
    LET r == to_as1_run(obj, use_type, 0)
    IN  [fn |-> "to_as1", type |-> None, context |-> None, use_type |-> use_type,
         arg |-> obj, ret |-> r.ret, after |-> r.caller, log |-> r.log]

\* the caller converts its AS1 tree
CallFromAs1 ==
    /\ calls = <<>>
    /\ dialect = "as1"
    /\ \E type \in TypeHints, context \in Contexts :
         LET c == FromCall(input, type, context)
         IN  calls' = <<c>> /\ input' = c.after
    /\ UNCHANGED <<tables, dialect>>

\* the caller converts its AS2 tree
CallToAs1 ==
    /\ calls = <<>>
    /\ dialect = "as2"
    /\ \E use_type \in BOOLEAN :
         LET c == ToCall(input, use_type)
         IN  calls' = <<c>> /\ input' = c.after
    /\ UNCHANGED <<tables, dialect>>

\* the caller converts the AS2 value from_as1 returned back to AS1
ThenToAs1 ==
    /\ Len(calls) = 1
    /\ calls[1].fn = "from_as1"
    /\ ~IsRaise(calls[1].ret)
    /\ calls' = Append(calls, ToCall(calls[1].ret, TRUE))
    /\ UNCHANGED <<tables, dialect, input>>

Next == CallFromAs1 \/ CallToAs1 \/ ThenToAs1

Spec == Init /\ [][Next]_vars

---------------------------------------------------------------------------
(* Properties *)

Calls(fn) == {i \in 1..Len(calls) : calls[i].fn = fn}

\* a call on a non-empty mapping that returned
Converted(fn) ==
    {i \in Calls(fn) : calls[i].arg.k = "dict" /\ Truthy(calls[i].arg)
                         /\ ~IsRaise(calls[i].ret)}

\* some mapping anywhere in v, under any key, has one of the keys
RECURSIVE HasKey(_, _)
HasKey(v, keys) ==
    CASE v.k = "dict" -> \/ DOMAIN v.m \cap keys # {}
                         \/ \E x \in DOMAIN v.m : HasKey(v.m[x], keys)
      [] v.k = "list" -> \E i \in 1..Len(v.l) : HasKey(v.l[i], keys)
      [] OTHER -> FALSE

\* some mapping of v reached through the fields alone has one of the keys
RECURSIVE HasKeyVia(_, _, _)
HasKeyVia(v, keys, fields) ==
    CASE v.k = "dict" -> \/ DOMAIN v.m \cap keys # {}
                         \/ \E x \in DOMAIN v.m \cap fields : HasKeyVia(v.m[x], keys, fields)
      [] v.k = "list" -> \E i \in 1..Len(v.l) : HasKeyVia(v.l[i], keys, fields)
      [] OTHER -> FALSE

\* the fields of a result that a conversion fills with converted values
FromFields == {"actor", "object", "attachment", "attributedTo", "image", "tag", "location"}

ToFields ==
    {"actor", "object", "attachments", "image", "inReplyTo", "location", "tags", "author"}

\* C1: a call to from_as1 or to_as1 leaves the caller's argument tree as it
\* was before the call, whether the call returns a result, returns the empty
\* mapping or raises.
C1_InputUnchanged ==
    /\ \A i \in 1..Len(calls) : calls[i].after = calls[i].arg
    /\ Len(calls) >= 1 => input = calls[1].arg

\* C1 witness: from_as1 popped verb and objectType of a mapping with a nested
\* list and returned another tree.
C1_Witness ==
    \E i \in Converted("from_as1") :
        /\ {"verb", "objectType", "attachments"} \subseteq DOMAIN calls[i].arg.m
        /\ calls[i].ret # calls[i].arg

\* C2 as claimed: no mapping anywhere in the tree from_as1 returns has a key
\* verb or objectType, and none anywhere in the tree to_as1 returns has a key
\* @context or type.
C2_NoForeignKeyAnywhere ==
    /\ \A i \in Converted("from_as1") : ~HasKey(calls[i].ret, {"verb", "objectType"})
    /\ \A i \in Converted("to_as1") : ~HasKey(calls[i].ret, {"@context", "type"})

\* C2 amended: the mapping from_as1 returns and every mapping reached from it
\* through the converted fields (actor, object, attachment, attributedTo,
\* image, tag, location) has no key verb or objectType; the mapping to_as1
\* returns and every mapping reached from it through actor, object,
\* attachments, image, inReplyTo, location, tags and author has no key
\* @context or type.  Values of other keys are passed through as they are.
C2_NoForeignKeyInConverted ==
    /\ \A i \in Converted("from_as1") :
          ~HasKeyVia(calls[i].ret, {"verb", "objectType"}, FromFields)
    /\ \A i \in Converted("to_as1") :
          ~HasKeyVia(calls[i].ret, {"@context", "type"}, ToFields)

\* C2 witness: from_as1 converted an author that carries objectType.
C2_Witness ==
    \E i \in Converted("from_as1") :
        /\ calls[i].ret.k = "dict"
        /\ "attributedTo" \in DOMAIN calls[i].ret.m
        /\ HasKey(get(calls[i].arg.m, "author"), {"objectType"})

\* C3 as claimed: from_as1 on a non-empty mapping with a context c that is
\* not null returns a mapping whose @context is c; with a null context it
\* adds no @context.
C3_ContextStamped ==
    \A i \in Converted("from_as1") :
        IF calls[i].context # None
        THEN calls[i].ret.k = "dict" /\ get(calls[i].ret.m, "@context") = calls[i].context
        ELSE "@context" \in DOMAIN calls[i].arg.m \/ ~HasKey(calls[i].ret, {"@context"})

\* C4: from_as1 with the default context on a non-empty AS1 mapping returns
\* a mapping that has @context, and no value under its actor, object,
\* attachment, attributedTo, image, tag or location has @context at any
\* depth.
C4_ContextOutermostOnly ==
    \A i \in Converted("from_as1") :
        calls[i].context = Str(CONTEXT) =>
            /\ calls[i].ret.k = "dict"
            /\ "@context" \in DOMAIN calls[i].ret.m
            /\ \A f \in FromFields \cap DOMAIN calls[i].ret.m :
                  ~HasKey(calls[i].ret.m[f], {"@context"})

\* C4 witness: the default context, and the result holds a converted mapping
\* in a list under attributedTo.
C4_Witness ==
    \E i \in Converted("from_as1") :
        /\ calls[i].context = Str(CONTEXT)
        /\ "@context" \in DOMAIN calls[i].ret.m
        /\ get(calls[i].ret.m, "attributedTo").k = "list"
        /\ get(calls[i].ret.m, "attributedTo").l[1].k = "dict"

IsLink(v) ==
    v.k = "dict" /\ DOMAIN v.m = {"url"} /\ v.m["url"].k = "str" /\ Truthy(v.m["url"])

\* C5: for a link-only object {url: u}, u a non-empty string: from_as1 with a
\* null context returns the string u; to_as1 of a non-empty string u returns
\* {url: u}; to_as1(from_as1({url: u})) is {url: u} with the default and with a
\* null context; and the same round trip holds for {object: {url: u}}.
C5_CollapseExpand ==
    /\ \A i \in Calls("from_as1") :
          (IsLink(calls[i].arg) /\ calls[i].type = None /\ calls[i].context = None)
              => calls[i].ret = calls[i].arg.m["url"]
    /\ \A i \in Calls("from_as1") :
          (/\ calls[i].arg.k = "dict" /\ DOMAIN calls[i].arg.m = {"object"}
           /\ IsLink(calls[i].arg.m["object"])
           /\ calls[i].type = None /\ calls[i].context = None)
              => calls[i].ret = Dict("object" :> calls[i].arg.m["object"].m["url"])
    /\ \A i \in Calls("to_as1") :
          (calls[i].arg.k = "str" /\ Truthy(calls[i].arg))
              => calls[i].ret = Dict("url" :> calls[i].arg)
    /\ (/\ Len(calls) = 2
        /\ calls[1].fn = "from_as1" /\ calls[2].fn = "to_as1"
        /\ calls[1].type = None /\ calls[1].context \in {None, Str(CONTEXT)}
        /\ \/ IsLink(calls[1].arg)
           \/ /\ calls[1].arg.k = "dict" /\ DOMAIN calls[1].arg.m = {"object"}
              /\ IsLink(calls[1].arg.m["object"]))
          => calls[2].ret = calls[1].arg

\* C5 witness: {object: {url: u}} went through from_as1 with a null context
\* and back through to_as1.
C5_Witness ==
    /\ Len(calls) = 2
    /\ calls[1].arg = Dict("object" :> Dict("url" :> Str(U)))
    /\ calls[1].type = None /\ calls[1].context = None
    /\ calls[1].ret = Dict("object" :> Str(U))
    /\ calls[2].ret = calls[1].arg

\* C6 as claimed: when image is a single non-empty mapping x, from_as1 yields
\* the one-element image list holding from_as1(x, type=Image) and to_as1
\* yields the one-element image list holding to_as1(x, use_type=False).
C6_ImagePluralized ==
    /\ \A i \in Converted("from_as1") :
          LET x == get(calls[i].arg.m, "image")
          IN  (x.k = "dict" /\ Truthy(x)) =>
                 /\ calls[i].ret.k = "dict"
                 /\ get(calls[i].ret.m, "image") = List(<<from_as1(x, Str("Image"), None)>>)
    /\ \A i \in Converted("to_as1") :
          LET x == get(calls[i].arg.m, "image")
          IN  (x.k = "dict" /\ Truthy(x)) =>
                 get(calls[i].ret.m, "image") = List(<<to_as1(x, FALSE)>>)

\* C7: from_as1 raises ValueError for every non-empty value that is no
\* mapping, a non-empty string included; to_as1 raises it for every non-empty
\* value that is neither a mapping nor a string; both return the empty mapping
\* for an empty value and raise nothing.
C7_InvalidInput ==
    /\ \A i \in 1..Len(calls) :
          ~Truthy(calls[i].arg) => calls[i].ret = Dict(EmptyMap)
    /\ \A i \in Calls("from_as1") :
          (Truthy(calls[i].arg) /\ calls[i].arg.k # "dict")
              => calls[i].ret = Raise("ValueError")
    /\ \A i \in Calls("to_as1") :
          (Truthy(calls[i].arg) /\ calls[i].arg.k \notin {"dict", "str"})
              => calls[i].ret = Raise("ValueError")

\* C7 witness: from_as1 was given a non-empty string and raised.
C7_Witness ==
    \E i \in Calls("from_as1") :
        calls[i].arg = Str(U) /\ calls[i].ret = Raise("ValueError")

\* the attributedTo values of a call's argument, as a list
Authors(i) == get_list(calls[i].arg.m, "attributedTo")

\* author is the conversion of v, or absent when that conversion is empty
AuthorIs(ret, v) ==
    LET a == to_as1(v, TRUE)
    IN  IF a \in NULLS THEN "author" \notin DOMAIN ret.m ELSE get(ret.m, "author") = a

\* the calls to_as1 made on a mapping that has attributedTo values
WithAuthors ==
    {i \in Calls("to_as1") :
        calls[i].arg.k = "dict" /\ Truthy(calls[i].arg) /\ Len(Authors(i)) >= 1}

\* C8 as claimed: for an AS2 mapping with n >= 1 attributedTo values, to_as1
\* returns a result whose author is the conversion of the first value and
\* which has no attributedTo; exactly one warning is logged when n > 1, naming
\* the values 2..n, and none when n = 1.
C8_OneWarning ==
    \A i \in WithAuthors :
        /\ ~IsRaise(calls[i].ret)
        /\ AuthorIs(calls[i].ret, Authors(i)[1])
        /\ "attributedTo" \notin DOMAIN calls[i].ret.m
        /\ Len(calls[i].log) = IF Len(Authors(i)) > 1 THEN 1 ELSE 0
        /\ Len(Authors(i)) > 1 => calls[i].log[1].dropped = Tail(Authors(i))

\* the warnings the call itself logged, not those of its nested conversions
Own(log) == SelectSeq(log, LAMBDA w : w.depth = 0)

\* C8 amended: as C8, but the warning counted is the call's own: the call logs
\* exactly one warning for its own attributedTo when n > 1, naming the values
\* 2..n, and none for it when n = 1; a nested mapping with several attributedTo
\* values logs a warning of its own.
C8_OneOwnWarning ==
    \A i \in WithAuthors :
        /\ ~IsRaise(calls[i].ret)
        /\ AuthorIs(calls[i].ret, Authors(i)[1])
        /\ "attributedTo" \notin DOMAIN calls[i].ret.m
        /\ Len(Own(calls[i].log)) = IF Len(Authors(i)) > 1 THEN 1 ELSE 0
        /\ Len(Authors(i)) > 1 => Own(calls[i].log)[1].dropped = Tail(Authors(i))

\* C8 witness: two authors, the second dropped with a warning, the first kept.
C8_Witness ==
    \E i \in WithAuthors :
        /\ Len(Authors(i)) = 2
        /\ Authors(i)[1] # Authors(i)[2]
        /\ Len(calls[i].log) = 1
        /\ "author" \in DOMAIN calls[i].ret.m

\* C9: to_as1 with use_type on an AS2 mapping: when the type is Note or
\* Article and inReplyTo is present and not empty, objectType is comment; else
\* when the type has a verb and no objectType, objectType is activity; else
\* objectType is what TYPE_TO_OBJECT_TYPE has for the type (absent if nothing).
C9_CommentDisambiguation ==
    \A i \in Converted("to_as1") :
        calls[i].use_type =>
            LET type == get(calls[i].arg.m, "type")
                out == get(calls[i].ret.m, "objectType")
            IN  IF type \in {Str("Note"), Str("Article")}
                     /\ Truthy(get(calls[i].arg.m, "inReplyTo"))
                THEN out = Str("comment")
                ELSE IF Truthy(lookup(TYPE_TO_VERB, type))
                          /\ ~Truthy(lookup(TYPE_TO_OBJECT_TYPE, type))
                THEN out = Str("activity")
                ELSE out = lookup(TYPE_TO_OBJECT_TYPE, type)

\* C9 witness: an Article in reply to something came out as a comment.
C9_Witness ==
    \E i \in Converted("to_as1") :
        /\ calls[i].use_type
        /\ get(calls[i].arg.m, "type") = Str("Article")
        /\ Truthy(get(calls[i].arg.m, "inReplyTo"))
        /\ get(calls[i].ret.m, "objectType") = Str("comment")

\* a round trip from_as1 then to_as1 of the one-key mapping {key: value}
RoundTripOf(key, value) ==
    /\ Len(calls) = 2
    /\ calls[1].fn = "from_as1" /\ calls[2].fn = "to_as1"
    /\ calls[1].arg = Dict(key :> Str(value))

\* C10 as claimed: for every key k of OBJECT_TYPE_TO_TYPE the inverted table
\* maps the table's value for k back to k and to_as1(from_as1({objectType: k}))
\* has objectType k; likewise for every key v of VERB_TO_TYPE and verb.
C10_NoCollision ==
    /\ \A x \in DOMAIN OBJECT_TYPE_TO_TYPE :
          RoundTripOf("objectType", x) =>
              /\ TYPE_TO_OBJECT_TYPE[OBJECT_TYPE_TO_TYPE[x]] = x
              /\ get(calls[2].ret.m, "objectType") = Str(x)
    /\ \A x \in DOMAIN VERB_TO_TYPE :
          RoundTripOf("verb", x) =>
              /\ TYPE_TO_VERB[VERB_TO_TYPE[x]] = x
              /\ get(calls[2].ret.m, "verb") = Str(x)

\* C10 amended: VERB_TO_TYPE has no collision and OBJECT_TYPE_TO_TYPE has
\* exactly one: comment and note both map to Note.  For every verb v and
\* every objectType k other than comment and note the inverted table maps the
\* value back to the key and the round trip has verb v, objectType k.  For
\* comment and note the inverted table keeps one of the two, the same for
\* both, and the round trip has that one.
C10_OneCollision ==
    /\ \A x \in DOMAIN VERB_TO_TYPE : TYPE_TO_VERB[VERB_TO_TYPE[x]] = x
    /\ \A x \in DOMAIN OBJECT_TYPE_TO_TYPE \ {"comment", "note"} :
          TYPE_TO_OBJECT_TYPE[OBJECT_TYPE_TO_TYPE[x]] = x
    /\ OBJECT_TYPE_TO_TYPE["comment"] = OBJECT_TYPE_TO_TYPE["note"]
    /\ TYPE_TO_OBJECT_TYPE["Note"] \in {"comment", "note"}
    /\ \A x \in DOMAIN OBJECT_TYPE_TO_TYPE :
          RoundTripOf("objectType", x) =>
              get(calls[2].ret.m, "objectType")
                  = Str(TYPE_TO_OBJECT_TYPE[OBJECT_TYPE_TO_TYPE[x]])
    /\ \A x \in DOMAIN VERB_TO_TYPE :
          RoundTripOf("verb", x) => get(calls[2].ret.m, "verb") = Str(x)

\* C10 witness: a round trip of {objectType: comment} or {objectType: note}
\* came back with the other objectType.
C10_Witness ==
    \E x \in {"comment", "note"} :
        /\ RoundTripOf("objectType", x)
        /\ get(calls[2].ret.m, "objectType") \in {Str("comment"), Str("note")} \ {Str(x)}

====
